---- MODULE Spec2Model ----
(***************************************************************************)
(* A model of src/server.py: the two FastMCP tools create_file and         *)
(* convert_file and the helpers they are built from.                       *)
(*                                                                         *)
(* Strings that the code only compares word by word (error texts, result   *)
(* messages) are sequences of words; a path is a record of its absolute    *)
(* flag, its directory components, the stem of its last component and its  *)
(* extension, so that os.path.splitext, dirname, basename, join and        *)
(* abspath are computed rather than assumed.  None and "" are both the     *)
(* falsy path None.                                                        *)
(***************************************************************************)
EXTENDS Integers, Sequences, FiniteSets, TLC

VARIABLES
    disk,        \* the files that exist: absolute path -> permission mode
    environ,     \* os.environ["PANDOC_OUTPUT_DIR"] (None: not set)
    which,       \* the LaTeX engines shutil.which finds on PATH
    pc,          \* per request slot: where the request is
    req,         \* per request slot: the request's locals
    engineEnv,   \* per request slot: the environment the engine process got
    engineCalls, \* per request slot: pypandoc calls made for the request
    engineResult,\* per request slot: what the pypandoc call did (None while pending)
    outcome,     \* per request slot: the returned string or raised error
    fin,         \* inputs of the helper under study (helper specifications)
    fout         \* the helper's result (helper specifications)

vars == <<disk, environ, which, pc, req, engineEnv, engineCalls, engineResult, outcome, fin, fout>>

(***************************************************************************)
(* Bounds                                                                  *)
(***************************************************************************)
NumRequests == 2
MaxFilters == 2
MaxErrorPieces == 3

Reqs == 1..NumRequests

(***************************************************************************)
(* Paths (os.path)                                                         *)
(***************************************************************************)
None == [abs |-> FALSE, dirs |-> <<>>, stem |-> "", ext |-> ""]

RelPath(dirs, stem, ext) == [abs |-> FALSE, dirs |-> dirs, stem |-> stem, ext |-> ext]

AbsPath(dirs, stem, ext) == [abs |-> TRUE, dirs |-> dirs, stem |-> stem, ext |-> ext]

\* os.getcwd() and os.path.expanduser("~")
Cwd == <<"work">>

Home == <<"home">>

Isabs(p) == p.abs

Abspath(p) == IF p.abs THEN p ELSE [p EXCEPT !.abs = TRUE, !.dirs = Cwd \o p.dirs]

Dirname(p) == [p EXCEPT !.stem = "", !.ext = ""]

Basename(p) == [abs |-> FALSE, dirs |-> <<>>, stem |-> p.stem, ext |-> p.ext]

Join(d, p) == IF p.abs THEN p ELSE [p EXCEPT !.abs = d.abs, !.dirs = d.dirs \o p.dirs]

\* str(path), as one word of a message
PathStr(p) == p.stem \o p.ext

\* os.path.exists / os.access(path, os.X_OK) / os.chmod(path, mode | 0o111).
\* Modes: "x" executable; "nox" not executable, chmod succeeds; "locked" not
\* executable and chmod raises (a file of another user, a read-only mount).
Exists(d, p) == Abspath(p) \in DOMAIN d

Executable(d, p) == d[Abspath(p)] = "x"

ChmodRaises(d, p) == d[Abspath(p)] = "locked"

Chmod(d, p) == [d EXCEPT ![Abspath(p)] = "x"]

(***************************************************************************)
(* Results of a call: a value, or a raised exception with its text         *)
(***************************************************************************)
Ok(v) == [ok |-> TRUE, val |-> v, err |-> <<>>]

Raise(empty, msg) == [ok |-> FALSE, val |-> empty, err |-> msg]

\* str.lower(): every word of the model that has an upper-case letter, with
\* its lower-case spelling; a word without one is its own lower-case spelling
lower_case ==
    (".PDF" :> ".pdf") @@ (".Pdf" :> ".pdf") @@ (".MD" :> ".md") @@ (".Md" :> ".md") @@
    (".TXT" :> ".txt") @@ (".HTML" :> ".html") @@ (".Html" :> ".html") @@
    (".DOCX" :> ".docx") @@ (".Docx" :> ".docx") @@ (".XYZ" :> ".xyz") @@
    ("Defaults" :> "defaults") @@ ("Error" :> "error") @@ ("File" :> "file") @@
    ("Filter" :> "filter") @@ ("Found" :> "found") @@ ("Input" :> "input") @@
    ("Invalid" :> "invalid") @@ ("LaTeX" :> "latex") @@ ("MiKTeX" :> "miktex") @@
    ("No" :> "no") @@ ("Not" :> "not") @@ ("PATH" :> "path") @@ ("PATH." :> "path.") @@
    ("PDF" :> "pdf") @@ ("Pandoc" :> "pandoc") @@ ("Permission" :> "permission") @@
    ("Please" :> "please") @@ ("Reference" :> "reference") @@ ("Unknown" :> "unknown") @@
    ("Unsupported" :> "unsupported") @@ ("YAML" :> "yaml")

Lower(w) == IF w \in DOMAIN lower_case THEN lower_case[w] ELSE w

LowerAll(text) == [i \in 1..Len(text) |-> Lower(text[i])]

\* `phrase in text`: the words of phrase occur contiguously in text
Mentions(text, phrase) ==
    \E i \in 0..(Len(text) - Len(phrase)) :
        \A j \in 1..Len(phrase) : text[i + j] = phrase[j]

StartsWith(text, phrase) ==
    /\ Len(phrase) <= Len(text)
    /\ \A j \in 1..Len(phrase) : text[j] = phrase[j]

(***************************************************************************)
(* _infer_format_from_extension                                            *)
(***************************************************************************)
ext_to_format ==
    (".txt" :> "plain") @@ (".html" :> "html") @@ (".htm" :> "html") @@
    (".md" :> "markdown") @@ (".markdown" :> "markdown") @@
    (".ipynb" :> "ipynb") @@ (".odt" :> "odt") @@ (".pdf" :> "pdf") @@
    (".docx" :> "docx") @@ (".doc" :> "docx") @@ (".rst" :> "rst") @@
    (".tex" :> "latex") @@ (".latex" :> "latex") @@ (".epub" :> "epub")

UnsupportedExtensionMsg(ext) == <<"Unsupported", "file", "extension", ":", ext>>

_infer_format_from_extension(file_path) ==
    LET ext == Lower(file_path.ext)
    IN  IF ext \notin DOMAIN ext_to_format
        THEN Raise("", UnsupportedExtensionMsg(ext))
        ELSE Ok(ext_to_format[ext])

(***************************************************************************)
(* _validate_conversion_params                                             *)
(***************************************************************************)
\* What open() and yaml.safe_load() make of a defaults file.  The program
\* never writes these files, so their content is a fixed part of the world:
\* "dict" a mapping, "dict_to" a mapping whose `to` names another format,
\* "list" a document whose root is no mapping, "yaml_error" a file that
\* does not parse, "perm_error" a file that cannot be opened.
YamlLoad(p) ==
    CASE p.stem = "d" -> "dict"
      [] p.stem = "to" -> "dict_to"
      [] p.stem = "list" -> "list"
      [] p.stem = "bad" -> "yaml_error"
      [] p.stem = "secret" -> "perm_error"
      [] OTHER -> "dict"

supported_formats ==
    {"html", "markdown", "pdf", "docx", "rst", "latex", "epub", "txt", "ipynb", "odt"}

ReferenceDocOnlyDocxMsg ==
    <<"reference_doc", "parameter", "is", "only", "supported", "for", "docx", "output", "format">>

ReferenceDocNotFoundMsg(p) == <<"Reference", "document", "not", "found", ":", PathStr(p)>>

DefaultsNotFoundMsg(p) == <<"Defaults", "file", "not", "found", ":", PathStr(p)>>

InvalidDefaultsMsg(p) ==
    <<"Invalid", "defaults", "file", "format", ":", PathStr(p), "-", "must", "be", "a", "YAML", "dictionary">>

ErrorParsingDefaultsMsg(p) == <<"Error", "parsing", "defaults", "file", PathStr(p)>>

PermissionDefaultsMsg(p) ==
    <<"Permission", "denied", "when", "reading", "defaults", "file", ":", PathStr(p)>>

\* The ValueError of line 127 is raised inside the try and caught by the
\* `except Exception` of line 146, which wraps it.
ErrorReadingDefaultsMsg(p) ==
    <<"Error", "reading", "defaults", "file", PathStr(p), ":">> \o InvalidDefaultsMsg(p)

UnsupportedOutputFormatMsg(fmt) == <<"Unsupported", "output", "format", ":", fmt>>

\* The check without its docx test.
ValidateReferenceDocAnyFormat(d, output_format, reference_doc) ==
    IF reference_doc # None /\ ~Exists(d, reference_doc)
    THEN ReferenceDocNotFoundMsg(reference_doc)
    ELSE <<>>

\* lines 106-113: the error text, or <<>> when the check passes
ValidateReferenceDoc(d, output_format, reference_doc) ==
    IF reference_doc # None
    THEN IF output_format # "docx"
         THEN ReferenceDocOnlyDocxMsg
         ELSE IF ~Exists(d, reference_doc)
              THEN ReferenceDocNotFoundMsg(reference_doc)
              ELSE <<>>
    ELSE <<>>

\* lines 115-149
ValidateDefaultsFile(d, output_format, defaults_file) ==
    IF defaults_file # None
    THEN IF ~Exists(d, defaults_file)
         THEN DefaultsNotFoundMsg(defaults_file)
         ELSE CASE YamlLoad(defaults_file) = "list" -> ErrorReadingDefaultsMsg(defaults_file)
                [] YamlLoad(defaults_file) = "yaml_error" -> ErrorParsingDefaultsMsg(defaults_file)
                [] YamlLoad(defaults_file) = "perm_error" -> PermissionDefaultsMsg(defaults_file)
                [] OTHER -> <<>>
    ELSE <<>>

\* The filters reach the function as a list of strings (the tool's declared
\* type), so the isinstance checks of lines 171-177 always pass.
_validate_conversion_params(d, output_format, reference_doc, filters, defaults_file) ==
    LET e1 == ValidateReferenceDoc(d, output_format, reference_doc)
        e2 == ValidateDefaultsFile(d, output_format, defaults_file)
    IN  IF e1 # <<>> THEN Raise("", e1)
        ELSE IF e2 # <<>> THEN Raise("", e2)
        ELSE IF output_format \notin supported_formats
             THEN Raise("", UnsupportedOutputFormatMsg(output_format))
             ELSE Ok("")

(***************************************************************************)
(* _resolve_filter_path                                                    *)
(***************************************************************************)
UserFilterDir == AbsPath(Home \o <<".pandoc", "filters">>, "", "")

\* The candidates with the user filter directory searched first.
CandidatePathsUserDirFirst(filter_path, defaults_file) ==
    IF Isabs(filter_path)
    THEN <<filter_path>>
    ELSE SelectSeq(
            <<Join(UserFilterDir, Basename(filter_path)),
              Abspath(filter_path),
              IF defaults_file # None
              THEN Join(Dirname(Abspath(defaults_file)), filter_path)
              ELSE None>>,
            LAMBDA p : p # None)

\* lines 185-209, with the None entries removed
CandidatePaths(filter_path, defaults_file) ==
    IF Isabs(filter_path)
    THEN <<filter_path>>
    ELSE SelectSeq(
            <<Abspath(filter_path),
              IF defaults_file # None
              THEN Join(Dirname(Abspath(defaults_file)), filter_path)
              ELSE None,
              Join(UserFilterDir, Basename(filter_path))>>,
            LAMBDA p : p # None)

\* lines 212-228: the path returned (None: not found) and the disk after the
\* chmod calls made on the way
RECURSIVE TryPaths(_, _)
TryPaths(d, paths) ==
    IF paths = <<>>
    THEN [path |-> None, disk |-> d]
    ELSE LET path == Head(paths)
         IN  IF Exists(d, path)
             THEN IF ~Executable(d, path)
                  THEN IF ChmodRaises(d, path)
                       THEN TryPaths(d, Tail(paths))
                       ELSE [path |-> path, disk |-> Chmod(d, path)]
                  ELSE [path |-> path, disk |-> d]
             ELSE TryPaths(d, Tail(paths))

_resolve_filter_path(d, filter_path, defaults_file) ==
    TryPaths(d, CandidatePaths(filter_path, defaults_file))

(***************************************************************************)
(* _validate_filters                                                       *)
(***************************************************************************)
FilterNotFoundMsg(filter_path) ==
    <<"Filter", "not", "found", "in", "any", "of", "the", "searched", "locations", ":",
      PathStr(filter_path)>>

\* The loop of lines 237-244 from filter i on, with validated_filters so far
RECURSIVE ValidateFrom(_, _, _, _, _)
ValidateFrom(d, filters, defaults_file, i, validated) ==
    IF i > Len(filters)
    THEN [ok |-> TRUE, val |-> validated, err |-> <<>>, disk |-> d]
    ELSE LET r == _resolve_filter_path(d, filters[i], defaults_file)
         IN  IF r.path # None
             THEN ValidateFrom(r.disk, filters, defaults_file, i + 1, Append(validated, r.path))
             ELSE [ok |-> FALSE, val |-> <<>>, err |-> FilterNotFoundMsg(filters[i]),
                   disk |-> r.disk]

\* The loop resolving every filter before it reports the first miss.
RECURSIVE ValidateAllThenRaise(_, _, _, _, _, _)
ValidateAllThenRaise(d, filters, defaults_file, i, validated, missing) ==
    IF i > Len(filters)
    THEN IF missing = <<>>
         THEN [ok |-> TRUE, val |-> validated, err |-> <<>>, disk |-> d]
         ELSE [ok |-> FALSE, val |-> <<>>, err |-> FilterNotFoundMsg(missing[1]), disk |-> d]
    ELSE LET r == _resolve_filter_path(d, filters[i], defaults_file)
         IN  IF r.path # None
             THEN ValidateAllThenRaise(r.disk, filters, defaults_file, i + 1,
                                       Append(validated, r.path), missing)
             ELSE ValidateAllThenRaise(r.disk, filters, defaults_file, i + 1,
                                       validated, Append(missing, filters[i]))

_validate_filters_late(d, filters, defaults_file) ==
    ValidateAllThenRaise(d, filters, defaults_file, 1, <<>>, <<>>)

_validate_filters(d, filters, defaults_file) ==
    ValidateFrom(d, filters, defaults_file, 1, <<>>)

(***************************************************************************)
(* _format_result_info                                                     *)
(***************************************************************************)
\* ', '.join(names), the names as words
RECURSIVE JoinNames(_)
JoinNames(paths) ==
    IF paths = <<>> THEN <<>>
    ELSE IF Len(paths) = 1 THEN <<PathStr(Basename(paths[1]))>>
    ELSE <<PathStr(Basename(paths[1])), ",">> \o JoinNames(Tail(paths))

_format_result_info(filters, defaults_file, validated_filters) ==
    [filter_info |->
        IF filters # <<>> /\ validated_filters # <<>>
        THEN <<"with", "filters", ":">> \o JoinNames(validated_filters)
        ELSE <<>>,
     defaults_info |->
        IF defaults_file # None
        THEN <<"using", "defaults", "file", ":", PathStr(Basename(defaults_file))>>
        ELSE <<>>]

(***************************************************************************)
(* _prepare_conversion_args                                                *)
(***************************************************************************)
\* One token of extra_args: a literal string or a path
Tok(s) == [s |-> s, p |-> None]

PathTok(p) == [s |-> "", p |-> p]

latex_engines == <<"xelatex", "pdflatex", "lualatex">>

latex_engines_reversed == <<"lualatex", "pdflatex", "xelatex">>

\* lines 299-310: the first engine of the list that shutil.which finds
\* ("": none)
RECURSIVE FirstFound(_, _)
FirstFound(engines, w) ==
    IF engines = <<>> THEN ""
    ELSE IF Head(engines) \in w THEN Head(engines)
    ELSE FirstFound(Tail(engines), w)

EngineFoundLast(w) == FirstFound(latex_engines_reversed, w)

EngineFound(w) == FirstFound(latex_engines, w)

PdfEngineMissingMsg ==
    <<"PDF", "generation", "requires", "a", "LaTeX", "engine", "(xelatex,", "pdflatex,", "or",
      "lualatex).", "Please", "install", "MiKTeX", "(https://miktex.org/)", "and", "ensure", "it's",
      "in", "your", "PATH.">>

DefaultsArgs(defaults_file) ==
    IF defaults_file # None
    THEN <<Tok("--defaults"), PathTok(Abspath(defaults_file))>>
    ELSE <<>>

RECURSIVE FilterArgs(_)
FilterArgs(validated_filters) ==
    IF validated_filters = <<>> THEN <<>>
    ELSE <<Tok("--filter"), PathTok(Head(validated_filters))>> \o FilterArgs(Tail(validated_filters))

PdfArgs(engine_found) ==
    <<Tok("--pdf-engine=" \o engine_found), Tok("-V"), Tok("geometry:margin=1in")>>

ReferenceDocArgs(output_format, reference_doc) ==
    IF reference_doc # None /\ output_format = "docx"
    THEN <<Tok("--reference-doc"), PathTok(reference_doc)>>
    ELSE <<>>

\* The tokens with the reference-doc pair put first.
AssembleArgsReferenceFirst(defaults_args, filter_args, pdf_args, reference_args) ==
    reference_args \o defaults_args \o filter_args \o pdf_args

\* The tokens in the order lines 279-322 extend extra_args
AssembleArgs(defaults_args, filter_args, pdf_args, reference_args) ==
    defaults_args \o filter_args \o pdf_args \o reference_args

\* lines 284-288: the value of PANDOC_OUTPUT_DIR after the call
SetOutputDir(env, output_file) ==
    IF output_file # None THEN Dirname(Abspath(output_file)) ELSE env

\* The result, with the disk and the environment the call leaves behind
_prepare_conversion_args(d, env, w, output_format, output_file, reference_doc, filters, defaults_file) ==
    LET env1 == SetOutputDir(env, output_file)
        vf == IF filters # <<>>
              THEN _validate_filters(d, filters, defaults_file)
              ELSE [ok |-> TRUE, val |-> <<>>, err |-> <<>>, disk |-> d]
    IN  IF ~vf.ok
        THEN [ok |-> FALSE, val |-> <<>>, err |-> vf.err, disk |-> vf.disk, environ |-> env1]
        ELSE IF output_format = "pdf" /\ EngineFound(w) = ""
        THEN [ok |-> FALSE, val |-> <<>>, err |-> PdfEngineMissingMsg, disk |-> vf.disk,
              environ |-> env1]
        ELSE [ok |-> TRUE,
              val |-> AssembleArgs(DefaultsArgs(defaults_file),
                                   FilterArgs(vf.val),
                                   IF output_format = "pdf" THEN PdfArgs(EngineFound(w)) ELSE <<>>,
                                   ReferenceDocArgs(output_format, reference_doc)),
              err |-> <<>>, disk |-> vf.disk, environ |-> env1]

(***************************************************************************)
(* _format_error_message                                                   *)
(***************************************************************************)
ErrorPrefix == <<"Error", "converting">>

FilterErrorPrefix == <<"Filter", "error", "during", "conversion">>

DefaultsErrorPrefix == <<"Defaults", "file", "error", "during", "conversion">>

PandocNotFoundPrefix == <<"Pandoc", "executable", "not", "found">>

PandocNotFoundDetails ==
    <<"Please", "ensure", "Pandoc", "is", "installed", "and", "available", "in", "your", "PATH">>

IsFilterError(error_details) ==
    \/ Mentions(error_details, <<"Filter", "not", "found">>)
    \/ Mentions(error_details, <<"Filter", "is", "not", "executable">>)

IsDefaultsError(error_details, defaults_file) ==
    Mentions(error_details, <<"defaults">>) /\ defaults_file # None

IsPandocNotFound(error_details) ==
    /\ Mentions(LowerAll(error_details), <<"pandoc">>)
    /\ Mentions(LowerAll(error_details), <<"not", "found">>)

\* The branches with the defaults test tried before the filter test.
ClassifyDefaultsFirst(e, defaults_file) ==
    IF IsDefaultsError(e, defaults_file)
    THEN [prefix |-> DefaultsErrorPrefix,
          details |-> e \o <<"(defaults", "file", ":", PathStr(defaults_file), ")">>]
    ELSE IF IsFilterError(e)
    THEN [prefix |-> FilterErrorPrefix, details |-> e]
    ELSE IF IsPandocNotFound(e)
    THEN [prefix |-> PandocNotFoundPrefix, details |-> PandocNotFoundDetails]
    ELSE [prefix |-> ErrorPrefix, details |-> e]

\* lines 338-348: the prefix and the details chosen
Classify(e, defaults_file) ==
    IF IsFilterError(e)
    THEN [prefix |-> FilterErrorPrefix, details |-> e]
    ELSE IF IsDefaultsError(e, defaults_file)
    THEN [prefix |-> DefaultsErrorPrefix,
          details |-> e \o <<"(defaults", "file", ":", PathStr(defaults_file), ")">>]
    ELSE IF IsPandocNotFound(e)
    THEN [prefix |-> PandocNotFoundPrefix, details |-> PandocNotFoundDetails]
    ELSE [prefix |-> ErrorPrefix, details |-> e]

_format_error_message(e, input_format, output_format, defaults_file, is_file) ==
    LET c == Classify(e, defaults_file)
        source_type == IF is_file THEN "file" ELSE "content"
    IN  c.prefix \o <<source_type, "from", input_format, "to", output_format, ":">> \o c.details

(***************************************************************************)
(* create_file and convert_file, up to the await                           *)
(***************************************************************************)
\* The arguments of a call, of either tool (a field a tool does not take is
\* None or "")
Call(tool, content, input_file, input_format, output_file, reference_doc, filters, defaults_file) ==
    [tool |-> tool, content |-> content, input_file |-> input_file,
     input_format |-> input_format, output_file |-> output_file,
     reference_doc |-> reference_doc, filters |-> filters, defaults_file |-> defaults_file]

\* The handler raised msg before its try block (nothing else changed), or
\* raised it from the except clause with the disk and environment as the try
\* block left them
Raised(msg, d, env, input_format, output_format) ==
    [raised |-> TRUE, msg |-> msg, disk |-> d, environ |-> env,
     input_format |-> input_format, output_format |-> output_format,
     extra_args |-> <<>>, validated_filters |-> <<>>]

\* The handler reached `await asyncio.to_thread(...)`
Awaiting(d, env, input_format, output_format, extra_args, validated_filters) ==
    [raised |-> FALSE, msg |-> <<>>, disk |-> d, environ |-> env,
     input_format |-> input_format, output_format |-> output_format,
     extra_args |-> extra_args, validated_filters |-> validated_filters]

NoFilters(d) == [ok |-> TRUE, val |-> <<>>, err |-> <<>>, disk |-> d]

\* lines 413-419 and the except clause of 441-445 / 527-532
TryBlock(d, env, w, a, input_format, output_format, is_file) ==
    LET prep == _prepare_conversion_args(d, env, w, output_format, a.output_file,
                                         a.reference_doc, a.filters, a.defaults_file)
        vf == IF a.filters # <<>>
              THEN _validate_filters(prep.disk, a.filters, a.defaults_file)
              ELSE NoFilters(prep.disk)
    IN  IF ~prep.ok
        THEN Raised(_format_error_message(prep.err, input_format, output_format,
                                          a.defaults_file, is_file),
                    prep.disk, prep.environ, input_format, output_format)
        ELSE IF ~vf.ok
        THEN Raised(_format_error_message(vf.err, input_format, output_format,
                                          a.defaults_file, is_file),
                    vf.disk, prep.environ, input_format, output_format)
        ELSE Awaiting(vf.disk, prep.environ, input_format, output_format, prep.val, vf.val)

\* create_file, lines 390-419
create_file(d, env, w, a) ==
    LET fmt == _infer_format_from_extension(a.output_file)
        v == _validate_conversion_params(d, fmt.val, a.reference_doc, a.filters,
                                         a.defaults_file)
    IN  IF a.content = ""
        THEN Raised(<<"content", "cannot", "be", "empty">>, d, env, a.input_format, "")
        ELSE IF a.output_file = None
        THEN Raised(<<"output_file", "path", "is", "required", "for", "create_file">>,
                    d, env, a.input_format, "")
        ELSE IF a.input_format = ""
        THEN Raised(<<"input_format", "is", "required">>, d, env, a.input_format, "")
        ELSE IF ~fmt.ok
        THEN Raised(fmt.err, d, env, a.input_format, "")
        ELSE IF a.input_format \notin {"markdown", "html"}
        THEN Raised(<<"Unsupported", "input", "format", ":", a.input_format>>,
                    d, env, a.input_format, fmt.val)
        ELSE IF ~v.ok
        THEN Raised(v.err, d, env, a.input_format, fmt.val)
        ELSE TryBlock(d, env, w, a, a.input_format, fmt.val, FALSE)

\* convert_file, lines 479-505
convert_file(d, env, w, a) ==
    LET infmt == _infer_format_from_extension(a.input_file)
        fmt == _infer_format_from_extension(a.output_file)
        v == _validate_conversion_params(d, fmt.val, a.reference_doc, a.filters,
                                         a.defaults_file)
    IN  IF a.input_file = None
        THEN Raised(<<"input_file", "is", "required">>, d, env, "", "")
        ELSE IF a.output_file = None
        THEN Raised(<<"output_file", "is", "required">>, d, env, "", "")
        ELSE IF ~Exists(d, a.input_file)
        THEN Raised(<<"Input", "file", "not", "found", ":", PathStr(a.input_file)>>,
                    d, env, "", "")
        ELSE IF ~infmt.ok
        THEN Raised(infmt.err, d, env, "", "")
        ELSE IF ~fmt.ok
        THEN Raised(fmt.err, d, env, infmt.val, "")
        ELSE IF ~v.ok
        THEN Raised(v.err, d, env, infmt.val, fmt.val)
        ELSE TryBlock(d, env, w, a, infmt.val, fmt.val, TRUE)

\* The success message of lines 432-439 / 518-525
ResultMessage(a, validated_filters) ==
    LET info == _format_result_info(a.filters, a.defaults_file, validated_filters)
    IN  <<"File", "successfully", IF a.tool = "convert_file" THEN "converted" ELSE "created">>
        \o info.filter_info \o info.defaults_info
        \o <<"and", "saved", "to", ":", PathStr(a.output_file)>>

(***************************************************************************)
(* The server: request slots, each serving one call                        *)
(***************************************************************************)
NoCall == Call("", "", None, "", None, None, <<>>, None)

NoLocals == [input_format |-> "", output_format |-> "", extra_args |-> <<>>,
             validated_filters |-> <<>>]

NoOutcome == [status |-> "none", msg |-> <<>>]

\* The files of the server's world
InputMd == RelPath(<<>>, "in", ".md")

InputTxt == RelPath(<<>>, "in", ".txt")

StyleDocx == RelPath(<<>>, "style", ".docx")

DefaultsYaml == AbsPath(<<"cfg">>, "d", ".yaml")

ListYaml == AbsPath(<<"cfg">>, "list", ".yaml")

FilterF == RelPath(<<>>, "f", ".py")

FilterG == RelPath(<<"sub">>, "g", ".py")

FilterH == AbsPath(<<"opt">>, "h", ".py")

ServerDisk ==
    (Abspath(InputMd) :> "nox") @@ (Abspath(InputTxt) :> "nox") @@
    (Abspath(StyleDocx) :> "nox") @@ (DefaultsYaml :> "nox") @@ (ListYaml :> "nox") @@
    (Abspath(FilterF) :> "nox") @@
    (Join(UserFilterDir, Basename(FilterF)) :> "x") @@
    (Join(UserFilterDir, Basename(FilterG)) :> "locked")

\* What the engine raises: texts pypandoc and pandoc produce
EngineErrors ==
    {<<"Pandoc", "died", "with", "exitcode", "83", "during", "conversion", ":",
       "Error", "running", "filter">>,
     <<"No", "pandoc", "was", "found">>,
     <<"Pandoc", "died", "with", "exitcode", "6", "during", "conversion", ":",
       "Unknown", "option", "in", "defaults", "file">>}

\* The handler runs from its first line to the await without yielding to the
\* event loop: one step
Begin(r, a, h) ==
    /\ pc[r] = "idle"
    /\ disk' = h.disk
    /\ environ' = h.environ
    /\ req' = [req EXCEPT ![r] = [call |-> a,
                                  locals |-> [input_format |-> h.input_format,
                                              output_format |-> h.output_format,
                                              extra_args |-> h.extra_args,
                                              validated_filters |-> h.validated_filters]]]
    /\ pc' = [pc EXCEPT ![r] = IF h.raised THEN "failed" ELSE "dispatched"]
    /\ outcome' = [outcome EXCEPT ![r] = IF h.raised
                                         THEN [status |-> "raised", msg |-> h.msg]
                                         ELSE NoOutcome]
    /\ UNCHANGED <<which, engineEnv, engineCalls, engineResult, fin, fout>>

CreateFile(r, a) == Begin(r, a, create_file(disk, environ, which, a))

ConvertFile(r, a) == Begin(r, a, convert_file(disk, environ, which, a))

\* The worker thread of asyncio.to_thread calls pypandoc, which starts the
\* engine process with the environment of that moment
EngineStart(r) ==
    /\ pc[r] = "dispatched"
    /\ pc' = [pc EXCEPT ![r] = "running"]
    /\ engineEnv' = [engineEnv EXCEPT ![r] = environ]
    /\ engineCalls' = [engineCalls EXCEPT ![r] = @ + 1]
    /\ UNCHANGED <<disk, environ, which, req, engineResult, outcome, fin, fout>>

\* What became of the pypandoc call in the worker thread
Pending == [status |-> "pending", err |-> <<>>]

\* The engine writes the output file: a new file is created, a file that
\* exists is rewritten and keeps its mode
WriteFile(d, p) == IF Exists(d, p) THEN d ELSE (Abspath(p) :> "nox") @@ d

\* In the worker thread the engine writes the output file and pypandoc
\* returns; the handler has not resumed yet
EngineReturns(r) ==
    /\ pc[r] = "running"
    /\ pc' = [pc EXCEPT ![r] = "finished"]
    /\ disk' = WriteFile(disk, req[r].call.output_file)
    /\ engineResult' = [engineResult EXCEPT ![r] = [status |-> "returned", err |-> <<>>]]
    /\ UNCHANGED <<environ, which, req, engineEnv, engineCalls, outcome, fin, fout>>

\* In the worker thread pypandoc raises; the handler has not resumed yet
EngineRaises(r) ==
    /\ pc[r] = "running"
    /\ pc' = [pc EXCEPT ![r] = "finished"]
    /\ \E e \in EngineErrors :
          engineResult' = [engineResult EXCEPT ![r] = [status |-> "raised", err |-> e]]
    /\ UNCHANGED <<disk, environ, which, req, engineEnv, engineCalls, outcome, fin, fout>>

\* The event loop resumes the handler after the await: it builds the result
\* message and returns it
ResumeReturns(r) ==
    /\ pc[r] = "finished"
    /\ engineResult[r].status = "returned"
    /\ pc' = [pc EXCEPT ![r] = "done"]
    /\ outcome' = [outcome EXCEPT ![r] =
                      [status |-> "returned",
                       msg |-> ResultMessage(req[r].call, req[r].locals.validated_filters)]]
    /\ UNCHANGED <<disk, environ, which, req, engineEnv, engineCalls, engineResult, fin, fout>>

\* The except clause sending the request back to the worker.
ResumeRetries(r) ==
    /\ pc[r] = "finished"
    /\ engineResult[r].status = "raised"
    /\ pc' = [pc EXCEPT ![r] = "dispatched"]
    /\ UNCHANGED <<disk, environ, which, req, engineEnv, engineCalls, engineResult, outcome, fin, fout>>

\* The event loop resumes the handler with the exception of the await: the
\* except clause raises the formatted error
ResumeRaises(r) ==
    /\ pc[r] = "finished"
    /\ engineResult[r].status = "raised"
    /\ outcome' = [outcome EXCEPT ![r] =
                      [status |-> "raised",
                       msg |-> _format_error_message(
                                   engineResult[r].err, req[r].locals.input_format,
                                   req[r].locals.output_format,
                                   req[r].call.defaults_file,
                                   req[r].call.tool = "convert_file")]]
    /\ pc' = [pc EXCEPT ![r] = "failed"]
    /\ UNCHANGED <<disk, environ, which, req, engineEnv, engineCalls, engineResult, fin, fout>>

InitSlots ==
    /\ pc = [r \in Reqs |-> "idle"]
    /\ req = [r \in Reqs |-> [call |-> NoCall, locals |-> NoLocals]]
    /\ engineEnv = [r \in Reqs |-> None]
    /\ engineCalls = [r \in Reqs |-> 0]
    /\ engineResult = [r \in Reqs |-> Pending]
    /\ outcome = [r \in Reqs |-> NoOutcome]

(***************************************************************************)
(* One call to the server, with every kind of argument                     *)
(***************************************************************************)
SeqsUpTo(S, n) == UNION {[1..k -> S] : k \in 0..n}

LatexEngines == {latex_engines[i] : i \in 1..Len(latex_engines)}

\* The ten extensions the tools document, then other spellings, an unknown
\* extension and none
ListedExtensions ==
    {".txt", ".html", ".md", ".ipynb", ".odt", ".pdf", ".docx", ".rst", ".tex", ".epub"}

OutputExtensions == ListedExtensions \cup {".PDF", ".Docx", ".xyz", ""}

OutputFiles ==
    {None} \cup {AbsPath(<<"a">>, "out", e) : e \in OutputExtensions}
           \cup {RelPath(<<"b">>, "out", e) : e \in OutputExtensions}

ReferenceDocs == {None, StyleDocx, RelPath(<<>>, "nostyle", ".docx")}

DefaultsFiles == {None, DefaultsYaml, ListYaml, AbsPath(<<"cfg">>, "gone", ".yaml")}

FilterLists == SeqsUpTo({FilterF, FilterG}, MaxFilters)

InputFiles == {None, InputMd, InputTxt, RelPath(<<>>, "gone", ".md")}

CreateCalls ==
    {Call("create_file", c, None, f, o, ref, fl, df) :
        c \in {"", "# Hi"}, f \in {"markdown", "html", "rst", ""}, o \in OutputFiles,
        ref \in ReferenceDocs, fl \in FilterLists, df \in DefaultsFiles}

ConvertCalls ==
    {Call("convert_file", "", i, "", o, ref, fl, df) :
        i \in InputFiles, o \in OutputFiles,
        ref \in ReferenceDocs, fl \in FilterLists, df \in DefaultsFiles}

\* PANDOC_OUTPUT_DIR may be inherited from the environment the server was
\* started in
Init ==
    /\ disk = ServerDisk
    /\ environ \in {None, AbsPath(<<"srv">>, "", "")}
    /\ which \in SUBSET LatexEngines
    /\ InitSlots
    /\ fin = <<>>
    /\ fout = <<>>

Next ==
    \/ pc[1] = "idle" /\ \E a \in CreateCalls : CreateFile(1, a)
    \/ pc[1] = "idle" /\ \E a \in ConvertCalls : ConvertFile(1, a)
    \/ EngineStart(1)
    \/ EngineReturns(1)
    \/ EngineRaises(1)
    \/ ResumeReturns(1)
    \/ ResumeRaises(1)

Spec == Init /\ [][Next]_vars

(***************************************************************************)
(* Concurrent calls                                                        *)
(***************************************************************************)
ConcurrentOutputs ==
    {AbsPath(<<"a">>, "out", ".html"), AbsPath(<<"b">>, "out", ".pdf")}

ConcurrentCreateCalls ==
    {Call("create_file", "# Hi", None, "markdown", o, None, fl, None) :
        o \in ConcurrentOutputs, fl \in {<<>>, <<FilterF>>}}

\* A conversion of the server's input file, or of a file another request
\* writes
ConcurrentConvertCalls ==
    {Call("convert_file", "", i, "", o, None, <<>>, None) :
        i \in {InputMd, AbsPath(<<"a">>, "out", ".html")}, o \in ConcurrentOutputs}

InitConcurrent ==
    /\ disk = ServerDisk
    /\ environ = None
    /\ which \in {{}, {"xelatex"}}
    /\ InitSlots
    /\ fin = <<>>
    /\ fout = <<>>

NextConcurrent ==
    \E r \in Reqs :
        \/ pc[r] = "idle" /\ \E a \in ConcurrentCreateCalls : CreateFile(r, a)
        \/ pc[r] = "idle" /\ \E a \in ConcurrentConvertCalls : ConvertFile(r, a)
        \/ EngineStart(r)
        \/ EngineReturns(r)
        \/ EngineRaises(r)
        \/ ResumeReturns(r)
        \/ ResumeRaises(r)

SpecConcurrent == InitConcurrent /\ [][NextConcurrent]_vars

(***************************************************************************)
(* The filter resolver on its own: any list of filters on any disk         *)
(***************************************************************************)
\* The places a filter of the study can be found, and the modes a file
\* there can have
FilterPlaces ==
    {Abspath(FilterF), Join(Dirname(DefaultsYaml), FilterF),
     Join(UserFilterDir, Basename(FilterF)),
     Abspath(FilterG), Join(UserFilterDir, Basename(FilterG)),
     FilterH}

PlaceModes(p) ==
    IF p.stem = "f" THEN {"absent", "x", "nox", "locked"}
    ELSE IF p.stem = "g" THEN {"absent", "nox"}
    ELSE {"absent", "x", "locked"}

\* The disk holding the files of f that are not absent
DiskOf(f) == [p \in {q \in DOMAIN f : f[q] # "absent"} |-> f[p]]

FilterDisks ==
    {DiskOf(f) : f \in {g \in [FilterPlaces -> {"absent", "x", "nox", "locked"}] :
                            \A p \in FilterPlaces : g[p] \in PlaceModes(p)}}

NoResult == [op |-> "none", path |-> None, ok |-> FALSE, val |-> <<>>, err |-> <<>>]

InitFilter ==
    /\ fin \in [filters : SeqsUpTo({FilterF, FilterG, FilterH}, MaxFilters),
                defaults_file : {None, DefaultsYaml},
                disk : FilterDisks]
    /\ disk = fin.disk
    /\ fout = NoResult
    /\ environ = None
    /\ which = {}
    /\ InitSlots

\* _resolve_filter_path(filters[0], defaults_file)
ResolveFilter ==
    /\ fout.op = "none"
    /\ fin.filters # <<>>
    /\ LET r == _resolve_filter_path(disk, fin.filters[1], fin.defaults_file)
       IN  /\ fout' = [NoResult EXCEPT !.op = "resolve", !.path = r.path]
           /\ disk' = r.disk
    /\ UNCHANGED <<environ, which, pc, req, engineEnv, engineCalls, engineResult, outcome, fin>>

\* _validate_filters(filters, defaults_file)
ValidateFilters ==
    /\ fout.op = "none"
    /\ LET r == _validate_filters(disk, fin.filters, fin.defaults_file)
       IN  /\ fout' = [NoResult EXCEPT !.op = "validate", !.ok = r.ok, !.val = r.val,
                                       !.err = r.err]
           /\ disk' = r.disk
    /\ UNCHANGED <<environ, which, pc, req, engineEnv, engineCalls, engineResult, outcome, fin>>

NextFilter == ResolveFilter \/ ValidateFilters

SpecFilter == InitFilter /\ [][NextFilter]_vars

(***************************************************************************)
(* The argument builder on its own                                         *)
(***************************************************************************)
ArgsDisks ==
    {(Abspath(FilterF) :> "nox") @@ (FilterH :> "x") @@ (DefaultsYaml :> "nox"),
     (Join(UserFilterDir, Basename(FilterF)) :> "x") @@ (DefaultsYaml :> "nox")}

InitArgs ==
    /\ fin \in [output_format : {"pdf", "docx", "html"},
                output_file : {None, AbsPath(<<"a">>, "out", ".bin")},
                reference_doc : {None, StyleDocx},
                filters : SeqsUpTo({FilterF, FilterH}, MaxFilters),
                defaults_file : {None, DefaultsYaml}]
    /\ disk \in ArgsDisks
    /\ which \in {{}, {"xelatex", "lualatex"}, {"lualatex"}}
    /\ fout = NoResult
    /\ environ = None
    /\ InitSlots

\* _prepare_conversion_args(output_format, output_file, reference_doc,
\* filters, defaults_file)
PrepareArgs ==
    /\ fout.op = "none"
    /\ LET r == _prepare_conversion_args(disk, environ, which, fin.output_format,
                                         fin.output_file, fin.reference_doc, fin.filters,
                                         fin.defaults_file)
       IN  /\ fout' = [NoResult EXCEPT !.op = "prepare", !.ok = r.ok, !.val = r.val,
                                       !.err = r.err]
           /\ disk' = r.disk
           /\ environ' = r.environ
    /\ UNCHANGED <<which, pc, req, engineEnv, engineCalls, engineResult, outcome, fin>>

NextArgs == PrepareArgs

SpecArgs == InitArgs /\ [][NextArgs]_vars

(***************************************************************************)
(* The error formatter on its own: any raised text                         *)
(***************************************************************************)
\* Pieces of error texts: the phrases the formatter looks for, in the
\* spellings it accepts and in spellings it does not
ErrorPieces ==
    {<<"Filter", "not", "found">>, <<"filter", "not", "found">>,
     <<"Filter", "is", "not", "executable">>,
     <<"defaults">>, <<"Defaults">>,
     <<"pandoc">>, <<"Pandoc">>, <<"not", "found">>, <<"Not", "Found">>, <<"died">>}

RECURSIVE Flatten(_)
Flatten(pieces) == IF pieces = <<>> THEN <<>> ELSE Head(pieces) \o Flatten(Tail(pieces))

ErrorTexts == {Flatten(ps) : ps \in SeqsUpTo(ErrorPieces, MaxErrorPieces)}

InitError ==
    /\ fin \in [e : ErrorTexts,
                input_format : {"markdown", "plain"},
                output_format : {"pdf"},
                defaults_file : {None, DefaultsYaml},
                is_file : BOOLEAN]
    /\ fout = <<>>
    /\ disk = ServerDisk
    /\ environ = None
    /\ which = {}
    /\ InitSlots

\* _format_error_message(e, input_format, output_format, defaults_file, is_file)
FormatError ==
    /\ fout = <<>>
    /\ fout' = _format_error_message(fin.e, fin.input_format, fin.output_format,
                                     fin.defaults_file, fin.is_file)
    /\ UNCHANGED <<disk, environ, which, pc, req, engineEnv, engineCalls, engineResult, outcome, fin>>

NextError == FormatError

SpecError == InitError /\ [][NextError]_vars

(***************************************************************************)
(* Properties                                                              *)
(***************************************************************************)
Range(seq) == {seq[i] : i \in 1..Len(seq)}

OwnOutputDir(r) == Dirname(Abspath(req[r].call.output_file))

NoKnobs(r) ==
    /\ req[r].call.reference_doc = None
    /\ req[r].call.filters = <<>>
    /\ req[r].call.defaults_file = None

\* The call passed the handler's own checks of its source
SourceAccepted(r) ==
    req[r].call.tool = "create_file" => req[r].call.input_format \in {"markdown", "html"}

\* C1: a call whose output file has one of the ten listed extensions, and
\* which gives no reference_doc, filters or defaults_file, is never refused
\* with 'Unsupported output format'.
C1_InferredFormatAccepted ==
    \A r \in Reqs :
        (/\ pc[r] # "idle"
         /\ req[r].call.output_file # None
         /\ req[r].call.output_file.ext \in ListedExtensions
         /\ NoKnobs(r))
        => ~Mentions(outcome[r].msg, <<"Unsupported", "output", "format">>)

\* C2: whenever the engine runs for a request, the PANDOC_OUTPUT_DIR it was
\* started with is the directory of that request's own output_file.
C2_HintIsOwnDirectory ==
    \A r \in Reqs : pc[r] = "running" => engineEnv[r] = OwnOutputDir(r)

\* C3: a call that fails before the engine is invoked leaves PANDOC_OUTPUT_DIR
\* as it was, has made no engine call and has written no file.
C3_FailedValidationLeavesNoTrace ==
    [][\A r \in Reqs :
          (pc[r] = "idle" /\ pc'[r] = "failed")
          => /\ environ' = environ
             /\ engineCalls'[r] = 0
             /\ DOMAIN disk' = DOMAIN disk]_vars

EnginePriority(e) == CASE e = "xelatex" -> 1 [] e = "pdflatex" -> 2 [] e = "lualatex" -> 3

EnginesNamed(args) == {e \in LatexEngines : Tok("--pdf-engine=" \o e) \in Range(args)}

\* C4: for pdf output the --pdf-engine token names the first of xelatex,
\* pdflatex, lualatex that is on PATH; with none of them on PATH the call
\* fails without an engine call, and a call with no optional argument (and
\* an accepted source format) fails with the 'Please install' text.
C4_PdfEngineByPriority ==
    \A r \in Reqs :
        (pc[r] # "idle" /\ req[r].locals.output_format = "pdf")
        => /\ pc[r] # "failed" \/ engineCalls[r] > 0
              => /\ Cardinality(EnginesNamed(req[r].locals.extra_args)) = 1
                 /\ \A e \in EnginesNamed(req[r].locals.extra_args) :
                       /\ e \in which
                       /\ \A o \in which : EnginePriority(e) <= EnginePriority(o)
           /\ which \cap LatexEngines = {}
              => /\ pc[r] = "failed"
                 /\ engineCalls[r] = 0
                 /\ outcome[r].status = "raised"
                 /\ (NoKnobs(r) /\ SourceAccepted(r))
                    => Mentions(outcome[r].msg, <<"Please", "install">>)

C4_Witness ==
    /\ pc[1] = "running"
    /\ req[1].locals.output_format = "pdf"
    /\ which = {"pdflatex", "lualatex"}
    /\ Tok("--pdf-engine=pdflatex") \in Range(req[1].locals.extra_args)

\* C5: a call with a reference_doc and a supported output format other than
\* docx is refused by the validation, so the engine is only ever invoked
\* with a reference_doc when the output format is docx.
C5_ReferenceDocOnlyDocx ==
    \A r \in Reqs :
        (pc[r] # "idle" /\ req[r].call.reference_doc # None)
        => /\ engineCalls[r] > 0 => req[r].locals.output_format = "docx"
           /\ req[r].locals.output_format \in supported_formats \ {"docx"}
              => /\ pc[r] = "failed"
                 /\ engineCalls[r] = 0
                 /\ SourceAccepted(r) => outcome[r].msg = ReferenceDocOnlyDocxMsg

C5_Witness ==
    /\ pc[1] = "running"
    /\ engineCalls[1] = 1
    /\ req[1].call.reference_doc = StyleDocx
    /\ req[1].locals.output_format = "docx"
    /\ Tok("--reference-doc") \in Range(req[1].locals.extra_args)

Categories == {FilterErrorPrefix, DefaultsErrorPrefix, PandocNotFoundPrefix, ErrorPrefix}

\* C10: a request makes at most one engine call; the call ends by returning
\* or by raising; when the engine has returned the request ends done with the
\* success message, when it has raised the request ends failed with one
\* classified error and is not sent to the engine again; a finished request
\* changes no more.
C10_OneCallOneOutcome ==
    [][\A r \in Reqs :
          /\ engineCalls'[r] <= 1
          /\ (pc[r] = "running" /\ pc'[r] # "running")
             => /\ pc'[r] = "finished"
                /\ engineResult'[r].status \in {"returned", "raised"}
          /\ (pc[r] = "finished" /\ pc'[r] # "finished")
             => \/ /\ engineResult[r].status = "returned"
                   /\ pc'[r] = "done"
                   /\ outcome'[r].status = "returned"
                   /\ StartsWith(outcome'[r].msg, <<"File", "successfully">>)
                \/ /\ engineResult[r].status = "raised"
                   /\ pc'[r] = "failed"
                   /\ outcome'[r].status = "raised"
                   /\ Cardinality({c \in Categories : StartsWith(outcome'[r].msg, c)}) = 1
          /\ pc[r] \in {"done", "failed"}
             => /\ pc'[r] = pc[r]
                /\ outcome'[r] = outcome[r]
                /\ engineCalls'[r] = engineCalls[r]]_vars

C10_Witness ==
    \E r \in Reqs :
        /\ pc[r] = "failed"
        /\ engineCalls[r] = 1
        /\ engineResult[r].status = "raised"
        /\ \E q \in Reqs : /\ pc[q] = "done"
                            /\ engineCalls[q] = 1
                            /\ engineResult[q].status = "returned"

InWorkingDir(ref) ==
    [abs |-> TRUE, dirs |-> Cwd \o ref.dirs, stem |-> ref.stem, ext |-> ref.ext]

InDefaultsDir(ref, df) ==
    [abs |-> TRUE, dirs |-> (IF df.abs THEN df.dirs ELSE Cwd \o df.dirs) \o ref.dirs,
     stem |-> ref.stem, ext |-> ref.ext]

InUserFilterDir(ref) ==
    [abs |-> TRUE, dirs |-> <<"home", ".pandoc", "filters">>, stem |-> ref.stem, ext |-> ref.ext]

SearchOrder(ref, df) ==
    IF ref.abs THEN <<ref>>
    ELSE IF df # None THEN <<InWorkingDir(ref), InDefaultsDir(ref, df), InUserFilterDir(ref)>>
    ELSE <<InWorkingDir(ref), InUserFilterDir(ref)>>

OnDisk(d, p) == p \in DOMAIN d

Usable(d, p) == p \in DOMAIN d /\ d[p] \in {"x", "nox"}

Least(S) == CHOOSE i \in S : \A j \in S : i <= j

\* C6: _resolve_filter_path returns the first candidate, in the order
\* working directory, directory of defaults_file (if given), user filter
\* directory (or the one absolute path), that exists and is executable or
\* can be made executable, and leaves it executable; it returns None
\* exactly when no candidate is such.
C6_FirstUsableCandidate ==
    fout.op = "resolve"
    => LET c == SearchOrder(fin.filters[1], fin.defaults_file)
           U == {i \in 1..Len(c) : Usable(fin.disk, c[i])}
       IN  /\ U = {} => fout.path = None /\ disk = fin.disk
           /\ U # {} => fout.path = c[Least(U)] /\ disk[fout.path] = "x"

C6_Witness ==
    /\ fout.op = "resolve"
    /\ fin.filters[1] = FilterF
    /\ fin.defaults_file = DefaultsYaml
    /\ InWorkingDir(FilterF) \in DOMAIN fin.disk
    /\ fin.disk[InWorkingDir(FilterF)] = "locked"
    /\ InDefaultsDir(FilterF, DefaultsYaml) \in DOMAIN fin.disk
    /\ fin.disk[InDefaultsDir(FilterF, DefaultsYaml)] = "nox"
    /\ InUserFilterDir(FilterF) \in DOMAIN fin.disk
    /\ fout.path = InDefaultsDir(FilterF, DefaultsYaml)
    /\ disk[fout.path] = "x"

\* C6 as first stated: the first candidate that exists is returned, and
\* None only when no candidate exists.
C6_FirstExistingCandidate ==
    fout.op = "resolve"
    => LET c == SearchOrder(fin.filters[1], fin.defaults_file)
           E == {i \in 1..Len(c) : OnDisk(fin.disk, c[i])}
       IN  /\ E = {} <=> fout.path = None
           /\ E # {} => fout.path = c[Least(E)]

Resolvable(d, ref, df) ==
    \E i \in 1..Len(SearchOrder(ref, df)) : Usable(d, SearchOrder(ref, df)[i])

\* C7: _validate_filters takes the filters in input order; at the first one
\* that does not resolve it raises 'Filter not found' naming it, having
\* touched no file of a later filter; it returns a list only when every
\* filter resolved, with one path per filter in the order given.
C7_FailFastInOrder ==
    fout.op = "validate"
    => LET fs == fin.filters
           df == fin.defaults_file
           M == {i \in 1..Len(fs) : ~Resolvable(fin.disk, fs[i], df)}
       IN  /\ fout.ok <=> M = {}
           /\ fout.ok
              => /\ Len(fout.val) = Len(fs)
                 /\ \A i \in 1..Len(fs) :
                       /\ fout.val[i] \in Range(SearchOrder(fs[i], df))
                       /\ disk[fout.val[i]] = "x"
           /\ ~fout.ok
              => /\ fout.val = <<>>
                 /\ Mentions(fout.err, <<"Filter", "not", "found">>)
                 /\ fout.err[Len(fout.err)] = PathStr(fs[Least(M)])
                 /\ \A p \in DOMAIN disk :
                       disk[p] # fin.disk[p]
                       => \E j \in 1..(Least(M) - 1) : p \in Range(SearchOrder(fs[j], df))

C7_Witness ==
    /\ fout.op = "validate"
    /\ fin.filters = <<FilterH, FilterF>>
    /\ FilterH \notin DOMAIN fin.disk
    /\ InWorkingDir(FilterF) \in DOMAIN fin.disk
    /\ fin.disk[InWorkingDir(FilterF)] = "nox"
    /\ ~fout.ok
    /\ disk[InWorkingDir(FilterF)] = "nox"

\* C8: the tokens _prepare_conversion_args returns are, in this order, the
\* --defaults pair if defaults_file is given, one --filter pair per filter
\* in the order given, the --pdf-engine token with -V and the margin if the
\* format is pdf, and the --reference-doc pair if reference_doc is given and
\* the format is docx; nothing else.
C8_ArgsInOrder ==
    (fout.op = "prepare" /\ fout.ok)
    => LET a == fout.val
           n == Len(fin.filters)
           d == IF fin.defaults_file # None THEN 2 ELSE 0
           g == IF fin.output_format = "pdf" THEN 3 ELSE 0
           s == IF fin.reference_doc # None /\ fin.output_format = "docx" THEN 2 ELSE 0
       IN  /\ Len(a) = d + 2 * n + g + s
           /\ d = 2 => /\ a[1] = [s |-> "--defaults", p |-> None]
                       /\ a[2] = [s |-> "", p |-> fin.defaults_file]
           /\ \A i \in 1..n :
                 /\ a[d + 2 * i - 1] = [s |-> "--filter", p |-> None]
                 /\ a[d + 2 * i].s = ""
                 /\ a[d + 2 * i].p \in Range(SearchOrder(fin.filters[i], fin.defaults_file))
                 /\ a[d + 2 * i].p \in DOMAIN disk
           /\ g = 3 => /\ \E e \in which : a[d + 2 * n + 1] = [s |-> "--pdf-engine=" \o e, p |-> None]
                       /\ a[d + 2 * n + 2] = [s |-> "-V", p |-> None]
                       /\ a[d + 2 * n + 3] = [s |-> "geometry:margin=1in", p |-> None]
           /\ s = 2 => /\ a[d + 2 * n + g + 1] = [s |-> "--reference-doc", p |-> None]
                       /\ a[d + 2 * n + g + 2] = [s |-> "", p |-> fin.reference_doc]

C8_Witness ==
    /\ fout.op = "prepare"
    /\ fout.ok
    /\ fin.defaults_file = DefaultsYaml
    /\ fin.filters = <<FilterF, FilterH>>
    /\ fin.output_format = "pdf"
    /\ fin.reference_doc = StyleDocx
    /\ Len(fout.val) = 9

HasWords(text, phrase) ==
    \E i \in 1..Len(text) :
        /\ i + Len(phrase) - 1 <= Len(text)
        /\ SubSeq(text, i, i + Len(phrase) - 1) = phrase

ExpectedCategory(e, df) ==
    IF HasWords(e, <<"Filter", "not", "found">>) \/ HasWords(e, <<"Filter", "is", "not", "executable">>)
    THEN <<"Filter", "error", "during", "conversion">>
    ELSE IF HasWords(e, <<"defaults">>) /\ df # None
    THEN <<"Defaults", "file", "error", "during", "conversion">>
    ELSE IF /\ \E i \in 1..Len(e) : e[i] \in {"pandoc", "Pandoc"}
            /\ \E i \in 1..(Len(e) - 1) : e[i] \in {"not", "Not"} /\ e[i + 1] \in {"found", "Found"}
    THEN <<"Pandoc", "executable", "not", "found">>
    ELSE <<"Error", "converting">>

\* C9: the message of _format_error_message starts with exactly one of the
\* four prefixes: the filter prefix if the text has 'Filter not found' or
\* 'Filter is not executable'; else the defaults prefix if it has 'defaults'
\* and a defaults file was given; else the pandoc prefix if, in lower case,
\* it has 'pandoc' and 'not found'; else the generic prefix.  It names the
\* source kind and both formats.
C9_OneCategoryByPriority ==
    fout # <<>>
    => /\ {c \in Categories : StartsWith(fout, c)} = {ExpectedCategory(fin.e, fin.defaults_file)}
       /\ HasWords(fout, <<IF fin.is_file THEN "file" ELSE "content", "from",
                           fin.input_format, "to", fin.output_format>>)
       /\ fin.defaults_file = None => ~StartsWith(fout, DefaultsErrorPrefix)

C9_Witness ==
    /\ fout # <<>>
    /\ HasWords(fin.e, <<"Filter", "not", "found">>)
    /\ HasWords(fin.e, <<"defaults">>)
    /\ HasWords(fin.e, <<"pandoc">>)
    /\ fin.defaults_file # None
    /\ StartsWith(fout, FilterErrorPrefix)

====
